---- MODULE Spec2Model ----
(***************************************************************************)
(* Model of the API testing agent (src/app.py): derivation of test cases   *)
(* from an OpenAPI contract (generate_test_cases), execution of one case   *)
(* (execute_test) and the bounded-parallel runner (run_tests).             *)
(*                                                                         *)
(* Python dictionaries are functions over string keys; a key that is       *)
(* absent from the dictionary is absent from the DOMAIN.  Dictionaries     *)
(* that the code shares by reference (dict.copy() is a shallow copy) live  *)
(* in a heap and are named by their index, so that a write through one     *)
(* alias is seen through every other alias.                                *)
(***************************************************************************)
EXTENDS Integers, Sequences, FiniteSets, TLC

\* ------------------------------------------------------------------------
\* Bounds of the model
\* ------------------------------------------------------------------------
\* largest number of path-item entries (path, method key) of a contract
MaxOps == 2

\* ------------------------------------------------------------------------
\* Python values
\* ------------------------------------------------------------------------
\* Python's None where a string is expected
None == "<None>"
\* None where a heap reference is expected (request body)
NoRef == 0
\* the empty dictionary {}
EmptyDict == <<>>

\* Python values whose type the code inspects (isinstance, str()) carry it:
\* a str, an int, a list of such values
PyStr(s) == [str |-> s]
PyInt(n) == [int |-> n]
PyList(l) == [list |-> l]

\* d.get(k, default)
Get(d, k, default) == IF k \in DOMAIN d THEN d[k] ELSE default

\* d[k] = v on a dictionary
Put(d, k, v) == [x \in (DOMAIN d) \cup {k} |-> IF x = k THEN v ELSE d[x]]

\* the method name as it is written, its case kept
LowerAsWritten(s) == s

\* str.lower() on the method names the model uses
Lower(s) ==
    CASE s \in {"GET", "Get"} -> "get"
      [] s \in {"POST", "Post"} -> "post"
      [] s \in {"PUT", "Put"} -> "put"
      [] s = "DELETE" -> "delete"
      [] s = "PATCH" -> "patch"
      [] s = "HEAD" -> "head"
      [] s = "PARAMETERS" -> "parameters"
      [] OTHER -> s

\* str.upper() on the method names the model uses
Upper(s) ==
    CASE s \in {"get", "Get"} -> "GET"
      [] s \in {"post", "Post"} -> "POST"
      [] s \in {"put", "Put"} -> "PUT"
      [] s = "delete" -> "DELETE"
      [] s = "patch" -> "PATCH"
      [] s = "head" -> "HEAD"
      [] s = "parameters" -> "PARAMETERS"
      [] OTHER -> s

\* str(n) of a non-negative int
Digit(d) ==
    CASE d = 0 -> "0" [] d = 1 -> "1" [] d = 2 -> "2" [] d = 3 -> "3" [] d = 4 -> "4"
      [] d = 5 -> "5" [] d = 6 -> "6" [] d = 7 -> "7" [] d = 8 -> "8" [] d = 9 -> "9"
RECURSIVE IntToStr(_)
IntToStr(n) == IF n < 10 THEN Digit(n) ELSE IntToStr(n \div 10) \o Digit(n % 10)

\* str(v) of a str or an int
StrOf(v) == IF "str" \in DOMAIN v THEN v.str ELSE IntToStr(v.int)

\* the methods generate_test_cases derives cases for
SupportedMethods == {"get", "post", "put", "delete", "patch"}

\* ------------------------------------------------------------------------
\* Contracts: the parsed OpenAPI documents the derivation is run on
\* ------------------------------------------------------------------------
\* components.securitySchemes of the contracts: an apiKey scheme, an http
\* bearer scheme and an http scheme of a kind the derivation does not
\* annotate; the name "Ghost" is declared by no contract
SchemeTable(loc) ==
    [ApiKeyAuth |-> [type |-> "apiKey", name |-> "X-API-Key", in |-> loc],
     BearerAuth |-> [type |-> "http", scheme |-> "bearer"],
     BasicAuth  |-> [type |-> "http", scheme |-> "basic"]]

\* the document-level part of a contract: servers, the global security
\* default (absent, or one requirement) and the components (or none)
ContractHeads ==
    { [servers |-> <<>>, components |-> [securitySchemes |-> SchemeTable("header")]],
      [servers |-> <<[url |-> "http://api"]>>, security |-> << <<"ApiKeyAuth">> >>,
       components |-> [securitySchemes |-> SchemeTable("query")]],
      [servers |-> <<[url |-> "http://api"]>>, security |-> << <<"BearerAuth">> >>] }

\* an operation's 'security' entry: a list of requirements, each requirement
\* the ordered list of the scheme names it keys
SecurityLists ==
    { <<>>, << <<>> >> } \cup
    { << <<n>> >> : n \in {"ApiKeyAuth", "BearerAuth", "BasicAuth", "Ghost"} }

\* an operation's 'parameters' entry
ParameterLists ==
    { <<>>,
      <<[name |-> "page", in |-> "query", required |-> TRUE]>>,
      <<[name |-> "page", in |-> "query"]>>,
      <<[name |-> "X-Trace", in |-> "header", required |-> TRUE]>>,
      <<[name |-> "id", in |-> "path", required |-> TRUE],
        [name |-> "page", in |-> "query", required |-> FALSE]>> }

\* the keys of the master document, in document order: path, path-item key,
\* and what the operation under the key declares besides its security and
\* parameters: responses (the declared codes in document order), summary,
\* requestBody; the key 'parameters' of a path item holds a parameter list,
\* not an operation
EntryKeys ==
    << [path |-> "/items", method |-> "get",
        extras |-> [responses |-> <<"200">>]],
       [path |-> "/items", method |-> "POST",
        extras |-> [responses |-> <<"201", "404">>,
                    summary |-> "Create item",
                    requestBody |-> [content |-> <<[type |-> "application/json",
                                                    schema |-> TRUE]>>]]],
       [path |-> "/items", method |-> "parameters", extras |-> EmptyDict],
       [path |-> "/users", method |-> "Put", extras |-> EmptyDict] >>

\* the values a contract can declare under the k-th key
Operations(k) ==
    IF EntryKeys[k].method = "parameters"
    THEN { <<[name |-> "id", in |-> "path", required |-> TRUE]>> }
    ELSE { [parameters |-> p] @@ EntryKeys[k].extras @@ s :
             p \in ParameterLists,
             s \in {EmptyDict} \cup { [security |-> l] : l \in SecurityLists } }

\* ------------------------------------------------------------------------
\* generate_test_cases
\* ------------------------------------------------------------------------
\* the result of the derivation so far: the list test_cases and the heap of
\* the dictionaries its cases refer to
NoCases == [cases |-> <<>>, heap |-> <<>>]

\* base_url = servers[0]['url'] if servers else ""
BaseUrl(spec) ==
    LET servers == Get(spec, "servers", <<>>)
    IN  IF servers # <<>> THEN servers[1].url ELSE ""

\* 'status': the first declared response code (a key of the responses
\* dictionary, a str), "200" without responses
ExpectedStatus(operation) ==
    LET responses == Get(operation, "responses", <<>>)
    IN  IF responses # <<>> THEN PyStr(responses[1]) ELSE PyStr("200")

\* the security taken from the document's default first, from the operation
\* only when the document has none
AuthKeysGlobalFirst(spec, operation) ==
    LET security == Get(spec, "security", Get(operation, "security", <<>>))
        auth_scheme == IF security[1] # <<>> THEN security[1][1] ELSE None
        security_schemes ==
            Get(Get(spec, "components", EmptyDict), "securitySchemes", EmptyDict)
        scheme == security_schemes[auth_scheme]
    IN  IF security = <<>> THEN EmptyDict
        ELSE IF auth_scheme = None THEN EmptyDict
        ELSE [auth_required |-> TRUE] @@
             (IF auth_scheme \notin DOMAIN security_schemes THEN EmptyDict
              ELSE IF Get(scheme, "type", None) = "apiKey"
                   THEN [auth_type |-> "apiKey",
                         auth_name |-> Get(scheme, "name", None),
                         auth_in |-> Get(scheme, "in", None)]
              ELSE IF Get(scheme, "type", None) = "http"
                      /\ Get(scheme, "scheme", None) = "bearer"
                   THEN [auth_type |-> "bearer"]
              ELSE EmptyDict)

\* the keys 'auth_required', 'auth_type', 'auth_name', 'auth_in' of the
\* nominal case
AuthKeys(spec, operation) ==
    LET security == Get(operation, "security", Get(spec, "security", <<>>))
        auth_scheme == IF security[1] # <<>> THEN security[1][1] ELSE None
        security_schemes ==
            Get(Get(spec, "components", EmptyDict), "securitySchemes", EmptyDict)
        scheme == security_schemes[auth_scheme]
    IN  IF security = <<>> THEN EmptyDict
        ELSE IF auth_scheme = None THEN EmptyDict
        ELSE [auth_required |-> TRUE] @@
             (IF auth_scheme \notin DOMAIN security_schemes THEN EmptyDict
              ELSE IF Get(scheme, "type", None) = "apiKey"
                   THEN [auth_type |-> "apiKey",
                         auth_name |-> Get(scheme, "name", None),
                         auth_in |-> Get(scheme, "in", None)]
              ELSE IF Get(scheme, "type", None) = "http"
                      /\ Get(scheme, "scheme", None) = "bearer"
                   THEN [auth_type |-> "bearer"]
              ELSE EmptyDict)

\* the dictionary of one location after the loop over the parameters:
\* a key with value None for every parameter declared in that location
RECURSIVE ParamDict(_, _)
ParamDict(parameters, loc) ==
    IF parameters = <<>> THEN EmptyDict
    ELSE LET n == Len(parameters)
             d == ParamDict(SubSeq(parameters, 1, n - 1), loc)
         IN  IF parameters[n]["in"] = loc THEN Put(d, parameters[n].name, None) ELSE d

\* required_params fed only by the query parameters
RECURSIVE QueryOnlyRequiredParams(_)
QueryOnlyRequiredParams(parameters) ==
    IF parameters = <<>> THEN <<>>
    ELSE LET n == Len(parameters)
             l == QueryOnlyRequiredParams(SubSeq(parameters, 1, n - 1))
         IN  IF Get(parameters[n], "required", FALSE) /\ parameters[n]["in"] = "query"
             THEN Append(l, parameters[n].name) ELSE l

\* the list 'required_params' after the loop over the parameters
RECURSIVE RequiredParams(_)
RequiredParams(parameters) ==
    IF parameters = <<>> THEN <<>>
    ELSE LET n == Len(parameters)
             l == RequiredParams(SubSeq(parameters, 1, n - 1))
         IN  IF Get(parameters[n], "required", FALSE)
             THEN Append(l, parameters[n].name) ELSE l

\* the key 'required_params': set only once a required parameter is seen
RequiredKeys(operation) ==
    LET l == RequiredParams(Get(operation, "parameters", <<>>))
    IN  IF l # <<>> THEN [required_params |-> l] ELSE EmptyDict

\* the request headers after the parameters and the request body: the
\* Content-Type of the last declared content type
RequestHeaders(operation) ==
    LET d == ParamDict(Get(operation, "parameters", <<>>), "header")
        content == Get(Get(operation, "requestBody", EmptyDict), "content", <<>>)
    IN  IF content # <<>> THEN Put(d, "Content-Type", content[Len(content)].type) ELSE d

\* whether the request body is the placeholder {}: some content type
\* declares a schema
HasBody(operation) ==
    LET content == Get(Get(operation, "requestBody", EmptyDict), "content", <<>>)
    IN  \E i \in 1..Len(content) : Get(content[i], "schema", FALSE)

\* the suffixes that name the negative variants
MissingSuffix == " - Missing Required Parameters"
InvalidSuffix == " - Invalid Authentication"

\* operation.get('summary', f"{method.upper()} {path}"), as a list of pieces
CaseName(path, method, operation) ==
    IF "summary" \in DOMAIN operation THEN <<operation.summary>>
    ELSE <<Upper(method), " ", path>>

\* the nominal test case of an operation; its headers, params and expected
\* dictionaries and its body are the heap objects at hr, pr, er and br
NominalCase(spec, path, method, operation, hr, pr, er, br) ==
    [path |-> path,
     method |-> Upper(method),
     name |-> CaseName(path, method, operation),
     description |-> Get(operation, "description", ""),
     request |-> [url |-> <<BaseUrl(spec), path>>, headers |-> hr, params |-> pr,
                  body |-> br],
     expected |-> er]
    @@ AuthKeys(spec, operation) @@ RequiredKeys(operation)

\* test_cases.append(test_case), with the dictionaries of the case allocated
AppendNominal(spec, path, method, operation, g) ==
    LET n == Len(g.heap)
        hasBody == HasBody(operation)
        tc == NominalCase(spec, path, method, operation, n + 1, n + 2, n + 3,
                          IF hasBody THEN n + 4 ELSE NoRef)
        objs == << RequestHeaders(operation),
                   ParamDict(Get(operation, "parameters", <<>>), "query"),
                   [status |-> ExpectedStatus(operation)] >>
    IN  [cases |-> Append(g.cases, tc),
         heap |-> g.heap \o objs \o (IF hasBody THEN <<EmptyDict>> ELSE <<>>)]

\* a variant that empties the params dictionary it shares with the nominal
\* case (params.clear() in place of a new dictionary)
MissingParamsClearingShared(test_case, g) ==
    IF Get(test_case, "required_params", <<>>) = <<>> THEN g
    ELSE LET error_test ==
                 [test_case EXCEPT !.name = test_case.name \o <<MissingSuffix>>]
         IN  [cases |-> Append(g.cases, error_test),
              heap |-> [g.heap EXCEPT ![error_test.request.params] = EmptyDict,
                                      ![error_test.expected] = [status |-> PyStr("400")]]]

\* "1. Missing required parameters": a shallow copy of the nominal case with
\* its own request dictionary and an empty params dictionary; 'expected' is
\* the nominal case's dictionary, written through the copy
MissingParamsVariant(test_case, g) ==
    IF Get(test_case, "required_params", <<>>) = <<>> THEN g
    ELSE LET pr == Len(g.heap) + 1
             error_test ==
                 [test_case EXCEPT !.name = test_case.name \o <<MissingSuffix>>,
                                   !.request = [test_case.request EXCEPT !.params = pr]]
         IN  [cases |-> Append(g.cases, error_test),
              heap |-> [Append(g.heap, EmptyDict)
                            EXCEPT ![error_test.expected] = [status |-> PyStr("400")]]]

\* the invalid-auth variant derived only when no missing-params variant was
\* (an elif in place of the second if)
ElifInvalidAuthVariant(test_case, g) ==
    IF ~Get(test_case, "auth_required", FALSE)
       \/ Get(test_case, "required_params", <<>>) # <<>> THEN g
    ELSE LET error_test ==
                 [test_case EXCEPT !.name = test_case.name \o <<InvalidSuffix>>]
                 @@ [auth_value |-> "invalid_auth_value"]
         IN  [cases |-> Append(g.cases, error_test),
              heap |-> [g.heap EXCEPT ![error_test.expected] = [status |-> PyStr("401")]]]

\* "2. Invalid authentication": a shallow copy of the nominal case with its
\* own request dictionary (same headers, params and body objects) and the
\* key 'auth_value'; 'expected' is the nominal case's dictionary, written
\* through the copy
InvalidAuthVariant(test_case, g) ==
    IF ~Get(test_case, "auth_required", FALSE) THEN g
    ELSE LET error_test ==
                 [test_case EXCEPT !.name = test_case.name \o <<InvalidSuffix>>]
                 @@ [auth_value |-> "invalid_auth_value"]
         IN  [cases |-> Append(g.cases, error_test),
              heap |-> [g.heap EXCEPT ![error_test.expected] = [status |-> PyStr("401")]]]

\* an iteration that derives the invalid-auth variant before the
\* missing-params variant
GenEntryInvalidFirst(spec, path, method, operation, g) ==
    IF Lower(method) \notin SupportedMethods THEN g
    ELSE LET g1 == AppendNominal(spec, path, method, operation, g)
             test_case == g1.cases[Len(g1.cases)]
         IN  MissingParamsVariant(test_case, InvalidAuthVariant(test_case, g1))

\* one iteration of the loops over paths and path items
GenEntry(spec, path, method, operation, g) ==
    IF Lower(method) \notin SupportedMethods THEN g
    ELSE LET g1 == AppendNominal(spec, path, method, operation, g)
             test_case == g1.cases[Len(g1.cases)]
         IN  InvalidAuthVariant(test_case, MissingParamsVariant(test_case, g1))

\* generate_test_cases(spec) on a whole document: the loops over its entries
RECURSIVE Generate(_, _)
Generate(spec, es) ==
    IF es = <<>> THEN NoCases
    ELSE LET n == Len(es)
         IN  GenEntry(spec, es[n].path, es[n].method, es[n].operation,
                      Generate(spec, SubSeq(es, 1, n - 1)))

\* ------------------------------------------------------------------------
\* Direct input: test cases converted from the simplified configuration
\* ------------------------------------------------------------------------
\* the test case of one entry tc of api['test_cases']
DirectCase(base_url, api, tc, g) ==
    LET n == Len(g.heap)
        method == Get(api, "method", "GET")
        auth_type == Get(api, "auth", None)
        test_case ==
            [path |-> api.endpoint,
             method |-> Upper(method),
             name |-> IF "name" \in DOMAIN tc THEN <<tc.name>>
                      ELSE <<method, " ", api.endpoint>>,
             request |-> [url |-> <<base_url, api.endpoint>>, headers |-> n + 1,
                          params |-> n + 2, body |-> NoRef],
             expected |-> n + 3]
            @@ (IF auth_type = None THEN EmptyDict
                ELSE [auth_required |-> TRUE] @@
                     (IF auth_type = "api_key"
                      THEN [auth_type |-> "apiKey", auth_name |-> "X-API-Key",
                            auth_in |-> "header"]
                      ELSE IF auth_type = "bearer_token" THEN [auth_type |-> "bearer"]
                      ELSE EmptyDict))
    IN  [cases |-> Append(g.cases, test_case),
         heap |-> g.heap \o << Get(tc, "headers", EmptyDict),
                               Get(tc, "query_params", EmptyDict),
                               [status |-> Get(tc, "expected_status", PyStr("200"))] >>]

\* the loop over api['test_cases']
RECURSIVE DirectApi(_, _, _, _)
DirectApi(base_url, api, tcs, g) ==
    IF tcs = <<>> THEN g
    ELSE LET n == Len(tcs)
         IN  DirectCase(base_url, api, tcs[n],
                        DirectApi(base_url, api, SubSeq(tcs, 1, n - 1), g))

\* the loop over yaml_data['apis']
RECURSIVE DirectApis(_, _)
DirectApis(base_url, apis) ==
    IF apis = <<>> THEN NoCases
    ELSE LET n == Len(apis)
         IN  DirectApi(base_url, apis[n], Get(apis[n], "test_cases", <<>>),
                       DirectApis(base_url, SubSeq(apis, 1, n - 1)))

\* the test cases of a simplified configuration
DirectInput(yaml_data) ==
    DirectApis(Get(yaml_data, "base_url", "http://localhost:8000"),
               Get(yaml_data, "apis", <<>>))

\* ------------------------------------------------------------------------
\* execute_test
\* ------------------------------------------------------------------------
\* the methods execute_test issues a request for
RequestMethods == {"get", "post", "put", "delete", "patch"}

\* the credential put in the params for 'header' and in the headers for
\* 'query'
PrepareAuthSwapped(test_case, auth_values, headers, params) ==
    IF ~Get(test_case, "auth_required", FALSE)
    THEN [headers |-> headers, params |-> params]
    ELSE LET auth_type == Get(test_case, "auth_type", None)
             auth_name == Get(test_case, "auth_name", None)
             auth_in == Get(test_case, "auth_in", None)
         IN  IF auth_type = "apiKey"
             THEN LET auth_value == Get(auth_values, "apiKey", None)
                  IN  IF auth_in = "query"
                      THEN [headers |-> Put(headers, auth_name, auth_value),
                            params |-> params]
                      ELSE IF auth_in = "header"
                      THEN [headers |-> headers,
                            params |-> Put(params, auth_name, auth_value)]
                      ELSE [headers |-> headers, params |-> params]
             ELSE IF auth_type = "bearer"
             THEN [headers |-> Put(headers, "Authorization",
                                   <<"Bearer ",
                                     LET v == Get(auth_values, "bearer", None)
                                     IN  IF v = None THEN "None" ELSE v>>),
                   params |-> params]
             ELSE [headers |-> headers, params |-> params]

\* "Fill in authentication": the headers and params of the outgoing request,
\* from copies of the case's dictionaries
PrepareAuth(test_case, auth_values, headers, params) ==
    IF ~Get(test_case, "auth_required", FALSE)
    THEN [headers |-> headers, params |-> params]
    ELSE LET auth_type == Get(test_case, "auth_type", None)
             auth_name == Get(test_case, "auth_name", None)
             auth_in == Get(test_case, "auth_in", None)
         IN  IF auth_type = "apiKey"
             THEN LET auth_value == Get(auth_values, "apiKey", None)
                  IN  IF auth_in = "header"
                      THEN [headers |-> Put(headers, auth_name, auth_value),
                            params |-> params]
                      ELSE IF auth_in = "query"
                      THEN [headers |-> headers,
                            params |-> Put(params, auth_name, auth_value)]
                      ELSE [headers |-> headers, params |-> params]
             ELSE IF auth_type = "bearer"
             THEN [headers |-> Put(headers, "Authorization",
                                   <<"Bearer ",
                                     LET v == Get(auth_values, "bearer", None)
                                     IN  IF v = None THEN "None" ELSE v>>),
                   params |-> params]
             ELSE [headers |-> headers, params |-> params]

\* result['request']: the request execute_test issues for a case, h the heap
PrepareRequest(test_case, auth_values, h) ==
    LET method == Lower(test_case.method)
        a == PrepareAuth(test_case, auth_values, h[test_case.request.headers],
                         h[test_case.request.params])
    IN  [url |-> test_case.request.url, method |-> method, headers |-> a.headers,
         params |-> a.params, body |-> test_case.request.body]

\* the comparison without str() of the expected status
ValidateUnrendered(expected_status, status_code) ==
    IF "list" \in DOMAIN expected_status
    THEN \E i \in 1..Len(expected_status.list) :
             expected_status.list[i] = PyStr(IntToStr(status_code))
    ELSE PyStr(IntToStr(status_code)) = expected_status

\* "Validate": the comparison of the observed status code with the expected
Validate(expected_status, status_code) ==
    IF "list" \in DOMAIN expected_status
    THEN \E i \in 1..Len(expected_status.list) :
             expected_status.list[i] = PyStr(IntToStr(status_code))
    ELSE IntToStr(status_code) = StrOf(expected_status)

\* the keys of the result set before the try block
ResultBase(test_case) ==
    [test_name |-> test_case.name, path |-> test_case.path, method |-> test_case.method]

\* the result of a case whose request was answered with status_code
ResultOfResponse(test_case, request, status_code, h) ==
    LET passed == Validate(h[test_case.expected].status, status_code)
    IN  ResultBase(test_case) @@
        [request |-> request,
         response |-> [status_code |-> status_code],
         passed |-> passed,
         status |-> IF passed THEN "Passed" ELSE "Failed"]

\* the result of a case whose try block raised e
ResultOfException(test_case, request, e) ==
    ResultBase(test_case) @@
    [request |-> request, error |-> e, passed |-> FALSE, status |-> "Error"]

\* ------------------------------------------------------------------------
\* generate_report
\* ------------------------------------------------------------------------
\* a count of the results whose status is not 'Failed'
CountNotFailed(results) ==
    Cardinality({i \in 1..Len(results) : results[i].status # "Failed"})

\* sum(1 for r in results if r.get('passed', False))
RECURSIVE CountPassed(_)
CountPassed(results) ==
    IF results = <<>> THEN 0
    ELSE LET n == Len(results)
         IN  CountPassed(SubSeq(results, 1, n - 1))
             + (IF Get(results[n], "passed", FALSE) THEN 1 ELSE 0)

\* round(n / d), halves going to the even neighbour as round() does
RoundHalfEven(n, d) ==
    LET q == n \div d
        r == n % d
    IN  IF 2 * r < d THEN q
        ELSE IF 2 * r > d THEN q + 1
        ELSE IF q % 2 = 0 THEN q ELSE q + 1

\* the share of passed tests as a fraction of 1, not of 100
SuccessRatio(passed_tests, total_tests) ==
    IF total_tests > 0 THEN RoundHalfEven(passed_tests * 100, total_tests) ELSE 0

\* 'success_rate': round(passed_tests / total_tests * 100, 2) if
\* total_tests > 0 else 0, in hundredths of a percent (10000 is 100.0)
SuccessRate(passed_tests, total_tests) ==
    IF total_tests > 0 THEN RoundHalfEven(passed_tests * 10000, total_tests) ELSE 0

\* a key made of the path alone
EndpointPathOnly(result) == result.path

\* endpoint = f"{result['method']} {result['path']}"
EndpointKey(result) == result.method \o " " \o result.path

\* an iteration that makes the group anew for every result
GroupStepFresh(endpoint_results, result) ==
    LET passed == Get(result, "passed", FALSE)
    IN  Put(endpoint_results, EndpointKey(result),
            [total |-> 1,
             passed |-> IF passed THEN 1 ELSE 0,
             failed |-> IF passed THEN 0 ELSE 1,
             tests |-> <<result>>])

\* an iteration that counts under failed only the results of status 'Failed'
GroupStepFailedOnly(endpoint_results, result) ==
    LET endpoint == EndpointKey(result)
        group == IF endpoint \in DOMAIN endpoint_results THEN endpoint_results[endpoint]
                 ELSE [total |-> 0, passed |-> 0, failed |-> 0, tests |-> <<>>]
    IN  Put(endpoint_results, endpoint,
            [total |-> group.total + 1,
             passed |-> group.passed + (IF Get(result, "passed", FALSE) THEN 1 ELSE 0),
             failed |-> group.failed + (IF result.status = "Failed" THEN 1 ELSE 0),
             tests |-> Append(group.tests, result)])

\* an iteration that puts the result at the head of the group's tests
GroupStepPrepend(endpoint_results, result) ==
    LET endpoint == EndpointKey(result)
        group == IF endpoint \in DOMAIN endpoint_results THEN endpoint_results[endpoint]
                 ELSE [total |-> 0, passed |-> 0, failed |-> 0, tests |-> <<>>]
        passed == Get(result, "passed", FALSE)
    IN  Put(endpoint_results, endpoint,
            [total |-> group.total + 1,
             passed |-> group.passed + (IF passed THEN 1 ELSE 0),
             failed |-> group.failed + (IF passed THEN 0 ELSE 1),
             tests |-> <<result>> \o group.tests])

\* one iteration of the loop "Group by endpoint"
GroupStep(endpoint_results, result) ==
    LET endpoint == EndpointKey(result)
        group == IF endpoint \in DOMAIN endpoint_results THEN endpoint_results[endpoint]
                 ELSE [total |-> 0, passed |-> 0, failed |-> 0, tests |-> <<>>]
        passed == Get(result, "passed", FALSE)
    IN  Put(endpoint_results, endpoint,
            [total |-> group.total + 1,
             passed |-> group.passed + (IF passed THEN 1 ELSE 0),
             failed |-> group.failed + (IF passed THEN 0 ELSE 1),
             tests |-> Append(group.tests, result)])

\* endpoint_results after the loop over results
RECURSIVE EndpointResults(_)
EndpointResults(results) ==
    IF results = <<>> THEN EmptyDict
    ELSE LET n == Len(results)
         IN  GroupStep(EndpointResults(SubSeq(results, 1, n - 1)), results[n])

\* generate_report(results); the times of the results and 'execution_time'
\* are left out
GenerateReport(results) ==
    LET total_tests == Len(results)
        passed_tests == CountPassed(results)
        failed_tests == total_tests - passed_tests
    IN  [summary |-> [total_tests |-> total_tests,
                      passed_tests |-> passed_tests,
                      failed_tests |-> failed_tests,
                      success_rate |-> SuccessRate(passed_tests, total_tests)],
         endpoint_results |-> EndpointResults(results),
         results |-> results]

\* ------------------------------------------------------------------------
\* Inputs of a run
\* ------------------------------------------------------------------------
\* largest pool size a run is given besides the default
MaxPool == 2

\* run_tests: the default of max_workers
DefaultMaxWorkers == 5

\* the status codes the system under test answers with
StatusCodes == {200, 400, 401}

\* the exceptions a request raises
TransportErrors == {"ConnectionError"}

\* the exception raised when no request was issued and response is None
NoResponseError == "'NoneType' object has no attribute 'status_code'"

\* the credentials the caller supplies: both values, empty values, none
AuthValues ==
    { [apiKey |-> "key-1", bearer |-> "token-1"],
      [apiKey |-> "", bearer |-> ""],
      EmptyDict }

\* the contracts whose derived cases are run
RunContracts ==
    { [spec |-> [servers |-> <<>>,
                 components |-> [securitySchemes |-> SchemeTable("header")]],
       lastKey |-> 1,
       entries |-> << [path |-> "/items", method |-> "get",
                       operation |->
                           [parameters |-> <<[name |-> "page", in |-> "query",
                                              required |-> TRUE]>>,
                            security |-> << <<"ApiKeyAuth">> >>]
                           @@ EntryKeys[1].extras] >>],
      [spec |-> [servers |-> <<[url |-> "http://api"]>>,
                 security |-> << <<"ApiKeyAuth">> >>,
                 components |-> [securitySchemes |-> SchemeTable("query")]],
       lastKey |-> 4,
       entries |-> << [path |-> "/items", method |-> "POST",
                       operation |->
                           [parameters |-> <<>>, security |-> << <<"BearerAuth">> >>]
                           @@ EntryKeys[2].extras],
                      [path |-> "/users", method |-> "Put",
                       operation |->
                           [parameters |-> <<>>, security |-> <<>>]] >>],
      [spec |-> [servers |-> <<[url |-> "http://api"]>>,
                 security |-> << <<"ApiKeyAuth">> >>,
                 components |-> [securitySchemes |-> SchemeTable("query")]],
       lastKey |-> 1,
       entries |-> << [path |-> "/items", method |-> "get",
                       operation |-> [parameters |-> <<>>] @@ EntryKeys[1].extras] >>],
      [spec |-> [servers |-> <<>>,
                 components |-> [securitySchemes |-> SchemeTable("cookie")]],
       lastKey |-> 2,
       entries |-> << [path |-> "/items", method |-> "get",
                       operation |-> [parameters |-> <<>>] @@ EntryKeys[1].extras],
                      [path |-> "/items", method |-> "POST",
                       operation |->
                           [parameters |-> <<>>, security |-> << <<"ApiKeyAuth">> >>]
                           @@ EntryKeys[2].extras] >>],
      [spec |-> [servers |-> <<[url |-> "http://api"]>>,
                 security |-> << <<"BearerAuth">> >>],
       lastKey |-> 0,
       entries |-> <<>>] }

\* the simplified configurations whose cases are run
RunConfigs ==
    { [apis |-> << [endpoint |-> "/users", method |-> "GET", auth |-> "bearer_token",
                    test_cases |->
                        << [name |-> "valid request", expected_status |-> PyInt(200)],
                           [query_params |-> [page |-> "-1"],
                            expected_status |->
                                PyList(<<PyStr("400"), PyInt(401)>>)] >>],
                   [endpoint |-> "/health", method |-> "head",
                    test_cases |-> << EmptyDict >>] >>] }

\* the inputs of run_tests: the cases and their heap, and the contract they
\* were derived from (an empty contract for a simplified configuration)
RunInputs ==
    { [spec |-> c.spec, entries |-> c.entries, lastKey |-> c.lastKey,
       g |-> Generate(c.spec, c.entries)] : c \in RunContracts }
    \cup
    { [spec |-> EmptyDict, entries |-> <<>>, lastKey |-> 0, g |-> DirectInput(y)] :
        y \in RunConfigs }

\* ------------------------------------------------------------------------
\* State
\* ------------------------------------------------------------------------
VARIABLES
    spec,        \* the document-level part of the contract under derivation
    entries,     \* the path-item entries iterated so far, in document order
    lastKey,     \* index in EntryKeys of the last entry iterated
    test_cases,  \* generate_test_cases: the list test_cases
    heap,        \* the dictionaries the test cases refer to
    pc,          \* where the main thread is
    auth_values, \* run_tests: the credentials
    max_workers, \* run_tests: the size of the pool
    futures,     \* run_tests: the futures submitted, in submission order; a
                 \* finished future also records what its try block met
                 \* (outcome: the response's status code, or the exception)
    completed,   \* run_tests: the counter completed of the loop over the futures
    results,     \* run_tests: the list results
    report       \* generate_report: the report, the empty dict before it is made

vars == <<spec, entries, lastKey, test_cases, heap, pc, auth_values, max_workers,
          futures, completed, results, report>>

genVars == <<spec, entries, lastKey, test_cases, heap>>

\* ------------------------------------------------------------------------
\* Derivation: generate_test_cases step by step
\* ------------------------------------------------------------------------
\* state at the entry of generate_test_cases(spec)
InitGen ==
    /\ spec \in ContractHeads
    /\ entries = <<>>
    /\ lastKey = 0
    /\ test_cases = <<>>
    /\ heap = <<>>
    /\ pc = "deriving"
    /\ auth_values = EmptyDict
    /\ max_workers = DefaultMaxWorkers
    /\ futures = <<>>
    /\ completed = 0
    /\ results = <<>>
    /\ report = EmptyDict

\* the loop body on the next entry of the document: the entry is skipped
\* when its key is no supported method, else its cases are appended
DeriveEntry ==
    /\ pc = "deriving"
    /\ Len(entries) < MaxOps
    /\ \E k \in (lastKey + 1)..Len(EntryKeys) : \E operation \in Operations(k) :
         LET e == [path |-> EntryKeys[k].path, method |-> EntryKeys[k].method,
                   operation |-> operation]
             g == GenEntry(spec, e.path, e.method, operation,
                           [cases |-> test_cases, heap |-> heap])
         IN  /\ entries' = Append(entries, e)
             /\ lastKey' = k
             /\ test_cases' = g.cases
             /\ heap' = g.heap
    /\ UNCHANGED <<spec, pc, auth_values, max_workers, futures, completed, results, report>>

\* return test_cases: the document has no further entry
ReturnCases ==
    /\ pc = "deriving"
    /\ pc' = "derived"
    /\ UNCHANGED <<genVars, auth_values, max_workers, futures, completed, results, report>>

NextGen == DeriveEntry \/ ReturnCases

SpecGen == InitGen /\ [][NextGen]_vars

\* ------------------------------------------------------------------------
\* Execution: run_tests and the workers of its pool
\* ------------------------------------------------------------------------
\* state at the entry of run_tests(test_cases, auth_values, max_workers)
InitRun ==
    /\ \E inp \in RunInputs :
         /\ spec = inp.spec
         /\ entries = inp.entries
         /\ lastKey = inp.lastKey
         /\ test_cases = inp.g.cases
         /\ heap = inp.g.heap
    /\ pc = "submitting"
    /\ auth_values \in AuthValues
    /\ max_workers \in (1..MaxPool) \cup {DefaultMaxWorkers}
    /\ futures = <<>>
    /\ completed = 0
    /\ results = <<>>
    /\ report = EmptyDict

\* the futures in each state
Pending == { i \in 1..Len(futures) : futures[i].state = "pending" }
Running == { i \in 1..Len(futures) : futures[i].state = "running" }
Finished == { i \in 1..Len(futures) : futures[i].state = "finished" }

\* the cases whose HTTP call is in flight: started and not yet returned
InFlight == { i \in Running : futures[i].request.method \in RequestMethods }

\* a pool that starts a thread for every work item
UnboundedWorkers(n) == TRUE

\* a pool whose worker stays taken until the loop has collected its result
WorkerHeldUntilCollected(n) ==
    Cardinality(Running) + Cardinality({ i \in Finished : i > completed }) < n

\* a pool that runs one thread fewer than max_workers
OneWorkerShort(n) == Cardinality(Running) < n - 1

\* a worker of the pool is free to take a work item: the pool runs at most
\* max_workers threads, each running one work item at a time
WorkerAvailable(n) == Cardinality(Running) < n

\* the work item the pool hands to a free worker: the oldest one queued
NextWorkItem == CHOOSE i \in Pending : \A j \in Pending : i <= j

\* executor.submit(execute_test, test, auth_values) for the next test case
Submit ==
    /\ pc = "submitting"
    /\ Len(futures) < Len(test_cases)
    /\ futures' = Append(futures, [state |-> "pending"])
    /\ UNCHANGED <<genVars, pc, auth_values, max_workers, completed, results, report>>

\* every case is submitted: the loop over the futures begins
BeginCollect ==
    /\ pc = "submitting"
    /\ Len(futures) = Len(test_cases)
    /\ pc' = "collecting"
    /\ UNCHANGED <<genVars, auth_values, max_workers, futures, completed, results, report>>

\* a worker filling in the authentication on the case's own headers and
\* params dictionaries (no .copy())
StartCaseInPlace ==
    /\ Pending # {}
    /\ WorkerAvailable(max_workers)
    /\ LET i == NextWorkItem
           request == PrepareRequest(test_cases[i], auth_values, heap)
       IN  /\ futures' = [futures EXCEPT ![i] = [state |-> "running", request |-> request]]
           /\ heap' = [heap EXCEPT ![test_cases[i].request.headers] = request.headers,
                                   ![test_cases[i].request.params] = request.params]
    /\ UNCHANGED <<spec, entries, lastKey, test_cases, pc, auth_values, max_workers,
                   completed, results, report>>

\* a worker takes the oldest queued work item and runs execute_test up to
\* the HTTP call
StartCase ==
    /\ Pending # {}
    /\ WorkerAvailable(max_workers)
    /\ LET i == NextWorkItem
       IN  futures' = [futures EXCEPT ![i] =
                          [state |-> "running",
                           request |-> PrepareRequest(test_cases[i], auth_values, heap)]]
    /\ UNCHANGED <<genVars, pc, auth_values, max_workers, completed, results, report>>

\* the HTTP call of a running case returns a response: execute_test
\* validates it and returns, the future is finished and the worker is free
FinishResponse ==
    /\ \E i \in InFlight : \E status_code \in StatusCodes :
         futures' = [futures EXCEPT ![i] =
                        [state |-> "finished",
                         outcome |-> [kind |-> "response", status_code |-> status_code],
                         result |-> ResultOfResponse(test_cases[i], futures[i].request,
                                                     status_code, heap)]]
    /\ UNCHANGED <<genVars, pc, auth_values, max_workers, completed, results, report>>

\* the try block of a running case raises (the HTTP call fails, or no call
\* was made for the method and response is None): execute_test returns the
\* Error result
FinishException ==
    /\ \E i \in Running :
         \E e \in IF i \in InFlight THEN TransportErrors ELSE {NoResponseError} :
             futures' = [futures EXCEPT ![i] =
                            [state |-> "finished",
                             outcome |-> [kind |-> "raised", exception |-> e],
                             result |-> ResultOfException(test_cases[i],
                                                          futures[i].request, e)]]
    /\ UNCHANGED <<genVars, pc, auth_values, max_workers, completed, results, report>>

\* the loop dropping the result of a case that ended in Error
CollectDroppingErrors ==
    /\ pc = "collecting"
    /\ completed < Len(futures)
    /\ futures[completed + 1].state = "finished"
    /\ results' = IF futures[completed + 1].result.status = "Error" THEN results
                  ELSE Append(results, futures[completed + 1].result)
    /\ completed' = completed + 1
    /\ UNCHANGED <<genVars, pc, auth_values, max_workers, futures, report>>

\* the loop taking the futures as they complete (as_completed)
CollectAsCompleted ==
    /\ pc = "collecting"
    /\ completed < Len(futures)
    /\ \E i \in 1..Len(futures) :
         /\ futures[i].state = "finished"
         /\ \A k \in 1..Len(results) : results[k] # futures[i].result
         /\ results' = Append(results, futures[i].result)
    /\ completed' = completed + 1
    /\ UNCHANGED <<genVars, pc, auth_values, max_workers, futures, report>>

\* one iteration of "for future in future_to_test": future.result() of the
\* next future in submission order, appended to results; execute_test
\* catches every Exception, so result() returns
Collect ==
    /\ pc = "collecting"
    /\ completed < Len(futures)
    /\ futures[completed + 1].state = "finished"
    /\ results' = Append(results, futures[completed + 1].result)
    /\ completed' = completed + 1
    /\ UNCHANGED <<genVars, pc, auth_values, max_workers, futures, report>>

\* the loop is over, the pool shuts down and run_tests returns results
ReturnResults ==
    /\ pc = "collecting"
    /\ completed = Len(futures)
    /\ pc' = "returned"
    /\ UNCHANGED <<genVars, auth_values, max_workers, futures, completed, results, report>>

NextRun ==
    \/ Submit
    \/ BeginCollect
    \/ StartCase
    \/ FinishResponse
    \/ FinishException
    \/ Collect
    \/ ReturnResults

SpecRun == InitRun /\ [][NextRun]_vars

\* the run under fair scheduling: the calling thread goes on submitting,
\* collecting and returning, a free worker takes the queued work item, and
\* every HTTP call that was dispatched returns a response or raises
LiveRun ==
    /\ InitRun
    /\ [][NextRun]_vars
    /\ WF_vars(Submit)
    /\ WF_vars(BeginCollect)
    /\ WF_vars(StartCase)
    /\ WF_vars(FinishResponse \/ FinishException)
    /\ WF_vars(Collect)
    /\ WF_vars(ReturnResults)

\* ------------------------------------------------------------------------
\* A run followed by its report, as the callers of run_tests do
\* ------------------------------------------------------------------------
\* report = generate_report(results)
Report ==
    /\ pc = "returned"
    /\ report' = GenerateReport(results)
    /\ pc' = "reported"
    /\ UNCHANGED <<genVars, auth_values, max_workers, futures, completed, results>>

NextReport == NextRun \/ Report

SpecReport == InitRun /\ [][NextReport]_vars

\* ------------------------------------------------------------------------
\* Reading the derived sequence
\* ------------------------------------------------------------------------
\* the expected status a case holds: what test_case['expected']['status'] reads
StatusOf(tc) == heap[tc.expected].status

\* the kind of a case, told by its name
IsMissingParams(tc) == tc.name[Len(tc.name)] = MissingSuffix
IsInvalidAuth(tc) == tc.name[Len(tc.name)] = InvalidSuffix
IsNominal(tc) == ~IsMissingParams(tc) /\ ~IsInvalidAuth(tc)

\* the positions of the nominal cases in test_cases
NominalIdx == { i \in 1..Len(test_cases) : IsNominal(test_cases[i]) }

\* the positions of the variants that follow the nominal case at i, up to
\* the next nominal case
VariantsOf(i) ==
    { j \in (i + 1)..Len(test_cases) :
        \A m \in (i + 1)..j : ~IsNominal(test_cases[m]) }

\* the entries of the contract that are operations of a supported method
IsSupported(e) == Lower(e.method) \in SupportedMethods
SupportedEntries == SelectSeq(entries, IsSupported)

\* the position in test_cases of the k-th nominal case
NominalAt(k) ==
    CHOOSE i \in NominalIdx : Cardinality({ j \in NominalIdx : j < i }) = k - 1

\* every supported operation has its nominal case, in document order
OneNominalPerOperation == Cardinality(NominalIdx) = Len(SupportedEntries)

\* the first declared response code of an operation, "200" when none
DeclaredStatus(operation) ==
    IF "responses" \in DOMAIN operation /\ Len(operation.responses) > 0
    THEN PyStr(Head(operation.responses)) ELSE PyStr("200")

\* an operation declares a required parameter, in whatever location
DeclaresRequired(operation) ==
    \E i \in 1..Len(operation.parameters) :
        /\ "required" \in DOMAIN operation.parameters[i]
        /\ operation.parameters[i].required = TRUE

\* the scheme name an operation's security resolves to (operation level
\* first, else the document's default), None when there is none
ResolvedScheme(operation) ==
    LET security == IF "security" \in DOMAIN operation THEN operation.security
                    ELSE IF "security" \in DOMAIN spec THEN spec.security ELSE <<>>
    IN  IF security = <<>> THEN None
        ELSE IF security[1] = <<>> THEN None ELSE security[1][1]

\* the named scheme is one the derivation annotates: apiKey or http bearer
IsAnnotatedScheme(n) ==
    /\ "components" \in DOMAIN spec
    /\ n \in DOMAIN spec.components.securitySchemes
    /\ LET scheme == spec.components.securitySchemes[n]
       IN  \/ scheme.type = "apiKey"
           \/ scheme.type = "http" /\ scheme.scheme = "bearer"

\* ------------------------------------------------------------------------
\* Claims about generate_test_cases
\* ------------------------------------------------------------------------
\* C1: in the returned sequence the nominal case of every supported
\* operation has as expected status the operation's first declared response
\* code, or "200" when it declares none, also when variants were derived
\* from the operation.
C1_NominalStatusIsDeclared ==
    pc = "derived" =>
        /\ OneNominalPerOperation
        /\ \A k \in 1..Len(SupportedEntries) :
             StatusOf(test_cases[NominalAt(k)]) =
                 DeclaredStatus(SupportedEntries[k].operation)

\* C2: in the returned sequence every missing-required-params variant has
\* expected status "400", whatever other variants its operation yields; an
\* operation with a required query parameter and apiKey security yields the
\* three cases with statuses declared, "400", "401".
C2_MissingParamsStatusIs400 ==
    pc = "derived" =>
        \A j \in 1..Len(test_cases) :
            IsMissingParams(test_cases[j]) => StatusOf(test_cases[j]) = PyStr("400")

\* C3: in the returned sequence a nominal case is followed by an
\* invalid-auth variant exactly when it carries the auth requirement
\* ('auth_required'), and every invalid-auth variant has expected status "401".
C3_InvalidAuthIffAuthRequired ==
    pc = "derived" =>
        /\ \A i \in NominalIdx :
             (\E j \in VariantsOf(i) : IsInvalidAuth(test_cases[j]))
                 <=> ("auth_required" \in DOMAIN test_cases[i]
                      /\ test_cases[i].auth_required)
        /\ \A j \in 1..Len(test_cases) :
             IsInvalidAuth(test_cases[j]) => StatusOf(test_cases[j]) = PyStr("401")

\* a returned sequence with a nominal case that carries the auth requirement
\* and one that does not
C3_Witness ==
    /\ pc = "derived"
    /\ \E i \in NominalIdx : "auth_required" \in DOMAIN test_cases[i]
                             /\ \E j \in VariantsOf(i) : IsInvalidAuth(test_cases[j])
    /\ \E i \in NominalIdx : "auth_required" \notin DOMAIN test_cases[i]

\* C4: in the returned sequence a nominal case is followed by a
\* missing-required-params variant exactly when its operation declares a
\* parameter with required = true, in any location.
C4_MissingParamsIffRequired ==
    pc = "derived" =>
        /\ OneNominalPerOperation
        /\ \A k \in 1..Len(SupportedEntries) :
             (\E j \in VariantsOf(NominalAt(k)) : IsMissingParams(test_cases[j]))
                 <=> DeclaresRequired(SupportedEntries[k].operation)

\* a returned sequence with an operation whose only required parameter is a
\* path parameter, followed by its variant, and an operation with an
\* optional parameter only
C4_Witness ==
    /\ pc = "derived"
    /\ OneNominalPerOperation
    /\ \E k \in 1..Len(SupportedEntries) :
         LET ps == SupportedEntries[k].operation.parameters
         IN  /\ DeclaresRequired(SupportedEntries[k].operation)
             /\ \A i \in 1..Len(ps) : "required" \in DOMAIN ps[i] /\ ps[i].required
                                        => ps[i]["in"] = "path"
             /\ \E j \in VariantsOf(NominalAt(k)) : IsMissingParams(test_cases[j])
    /\ \E k \in 1..Len(SupportedEntries) :
         /\ SupportedEntries[k].operation.parameters # <<>>
         /\ ~DeclaresRequired(SupportedEntries[k].operation)

\* C5: for an operation whose resolved security names a scheme that is
\* neither an apiKey nor an http-bearer scheme, the nominal case carries no
\* auth requirement and no invalid-auth variant follows it.
C5_UnsupportedSchemeNoAuth ==
    pc = "derived" =>
        /\ OneNominalPerOperation
        /\ \A k \in 1..Len(SupportedEntries) :
             LET n == ResolvedScheme(SupportedEntries[k].operation)
                 i == NominalAt(k)
             IN  (n # None /\ ~IsAnnotatedScheme(n)) =>
                     /\ "auth_required" \notin DOMAIN test_cases[i]
                     /\ \A j \in VariantsOf(i) : ~IsInvalidAuth(test_cases[j])

\* ------------------------------------------------------------------------
\* Reading a run
\* ------------------------------------------------------------------------
\* the request execute_test has issued for the i-th case
RequestOf(i) ==
    IF futures[i].state = "running" THEN futures[i].request
    ELSE futures[i].result.request

\* the credential an outgoing request carries for a case that requires auth
\* of an annotated kind: the apiKey header or query value, or the token
\* after "Bearer "
SentCredential(tc, request) ==
    IF tc.auth_type = "apiKey"
    THEN IF tc.auth_in = "header" THEN request.headers[tc.auth_name]
         ELSE request.params[tc.auth_name]
    ELSE request.headers["Authorization"][2]

\* the status code, rendered as a string, equals the expected status (itself
\* rendered as a string), or is an element of the expected list
Matches(expected_status, status_code) ==
    IF "list" \in DOMAIN expected_status
    THEN PyStr(IntToStr(status_code)) \in
             { expected_status.list[k] : k \in 1..Len(expected_status.list) }
    ELSE IntToStr(status_code) =
             (IF "int" \in DOMAIN expected_status THEN IntToStr(expected_status.int)
              ELSE expected_status.str)

\* ------------------------------------------------------------------------
\* Claims about execute_test and run_tests
\* ------------------------------------------------------------------------
\* C6: the request execute_test issues for an invalid-auth variant carries
\* the sentinel value recorded on the variant ('auth_value'), not the value
\* of the caller's credentials.
C6_InvalidAuthSendsSentinel ==
    \A i \in Running \cup Finished :
        LET tc == test_cases[i]
        IN  ("auth_value" \in DOMAIN tc /\ "auth_type" \in DOMAIN tc) =>
                SentCredential(tc, RequestOf(i)) = tc.auth_value

\* C7: a finished case is 'Passed' (passed = true) exactly when a response
\* was received and its status code, as a string, matches the expected
\* status; a response that does not match gives 'Failed', passed = false,
\* and no error.
C7_PassedIffStatusMatches ==
    \A i \in Finished :
        LET r == futures[i].result
            received == "response" \in DOMAIN r
            expected_status == StatusOf(test_cases[i])
        IN  /\ (r.status = "Passed") <=> r.passed
            /\ r.passed <=> (received /\ Matches(expected_status, r.response.status_code))
            /\ (received /\ ~Matches(expected_status, r.response.status_code)) =>
                   /\ r.status = "Failed"
                   /\ ~r.passed
                   /\ "error" \notin DOMAIN r

\* a passed case whose expected status is an int, and a case that failed on
\* a response whose code is not an element, as a string, of the expected list
C7_Witness ==
    /\ \E i \in Finished : /\ futures[i].result.status = "Passed"
                           /\ "int" \in DOMAIN StatusOf(test_cases[i])
    /\ \E i \in Finished : /\ futures[i].result.status = "Failed"
                           /\ "response" \in DOMAIN futures[i].result
                           /\ "list" \in DOMAIN StatusOf(test_cases[i])

\* C8: run_tests always comes to return (no state short of the return is
\* stuck), and it returns one result per test case whatever the outcomes of
\* the cases were.
C8_OneResultPerCase ==
    /\ pc # "returned" => ENABLED NextRun
    /\ pc = "returned" =>
           /\ Len(results) = Len(test_cases)
           /\ \A i \in 1..Len(results) : results[i].status \in {"Passed", "Failed", "Error"}

\* run_tests has returned from a run with a passed, a failed and an errored
\* case
C8_Witness ==
    /\ pc = "returned"
    /\ \E i, j, k \in 1..Len(results) :
         /\ results[i].status = "Error"
         /\ results[j].status = "Failed"
         /\ results[k].status = "Passed"

\* C9: the i-th element of the returned list is the result of the i-th test
\* case, whatever the order in which the cases completed.
C9_ResultsInCaseOrder ==
    pc = "returned" =>
        /\ Len(results) = Len(test_cases)
        /\ \A i \in 1..Len(results) :
             /\ results[i] = futures[i].result
             /\ results[i].test_name = test_cases[i].name
             /\ results[i].path = test_cases[i].path
             /\ results[i].method = test_cases[i].method

\* the collecting loop has taken a result while a later case has finished
\* before an earlier one
C9_Witness ==
    /\ results # <<>>
    /\ \E i, j \in 1..Len(futures) : i < j /\ i \in Running /\ j \in Finished

\* C10: at most max_workers HTTP calls are in flight, whatever the number of
\* test cases.
C10_InFlightBounded == Cardinality(InFlight) <= max_workers

\* the pool is full while cases are still queued
C10_Witness ==
    /\ Cardinality(InFlight) = max_workers
    /\ Pending # {}

\* ------------------------------------------------------------------------
\* Claims about errored cases and the report
\* ------------------------------------------------------------------------
\* the cases whose try block raised
Raised == {i \in Finished : futures[i].outcome.kind = "raised"}

\* the cases whose request was answered
Answered == {i \in Finished : futures[i].outcome.kind = "response"}

\* C11: a case whose HTTP call raised has a result with status 'Error' and
\* passed false that carries the exception's text and no response, and the
\* report counts it under failed, not under passed.
C11_RaisedCaseIsError ==
    /\ \A i \in Raised :
         LET r == futures[i].result
         IN  /\ r.status = "Error"
             /\ r.passed = FALSE
             /\ r.error = futures[i].outcome.exception
             /\ "response" \notin DOMAIN r
    /\ pc = "reported" =>
         LET answeredFailed == {i \in Answered : ~futures[i].result.passed}
             answeredPassed == {i \in Answered : futures[i].result.passed}
         IN  /\ report.summary.passed_tests = Cardinality(answeredPassed)
             /\ report.summary.failed_tests =
                    Cardinality(Raised) + Cardinality(answeredFailed)

\* a report of a run in which one case raised and another passed
C11_Witness ==
    /\ pc = "reported"
    /\ Raised # {}
    /\ \E i \in Answered : futures[i].result.passed

\* the sum of a count (total, passed or failed) over the groups named keys
RECURSIVE GroupSum(_, _, _)
GroupSum(endpoint_results, keys, count) ==
    IF keys = {} THEN 0
    ELSE LET k == CHOOSE x \in keys : TRUE
         IN  endpoint_results[k][count] + GroupSum(endpoint_results, keys \ {k}, count)

\* the sum of a count over all groups of the report
ReportSum(count) ==
    GroupSum(report.endpoint_results, DOMAIN report.endpoint_results, count)

\* C12: the summary's total_tests is the length of the report's results, and
\* the totals of the endpoint groups add up to it.
C12_TotalsConsistent ==
    pc = "reported" =>
        /\ report.summary.total_tests = Len(report.results)
        /\ ReportSum("total") = report.summary.total_tests
        /\ \A k \in DOMAIN report.endpoint_results :
             report.endpoint_results[k].total = Len(report.endpoint_results[k].tests)

\* a report with two groups, one of them of more than one result
C12_Witness ==
    /\ pc = "reported"
    /\ Cardinality(DOMAIN report.endpoint_results) >= 2
    /\ \E k \in DOMAIN report.endpoint_results : report.endpoint_results[k].total >= 2

\* the positions of the results with passed = true
PassedResults == {i \in 1..Len(results) : results[i].passed = TRUE}

\* C13: passed_tests is the number of results with passed = true and
\* failed_tests the number of all others, Failed and Error alike; every group
\* has passed + failed = total, and the groups' passed and failed counts add
\* up to the summary's.
C13_PassedFailedConsistent ==
    pc = "reported" =>
        /\ report.summary.passed_tests = Cardinality(PassedResults)
        /\ report.summary.failed_tests = Len(results) - Cardinality(PassedResults)
        /\ report.summary.passed_tests + report.summary.failed_tests
               = report.summary.total_tests
        /\ \A k \in DOMAIN report.endpoint_results :
             LET group == report.endpoint_results[k]
             IN  group.passed + group.failed = group.total
        /\ ReportSum("passed") = report.summary.passed_tests
        /\ ReportSum("failed") = report.summary.failed_tests

\* a report of a passed, a failed and an errored result
C13_Witness ==
    /\ pc = "reported"
    /\ \E i, j, k \in 1..Len(results) :
         /\ results[i].status = "Error"
         /\ results[j].status = "Failed"
         /\ results[k].status = "Passed"
    /\ report.summary.passed_tests = 1
    /\ report.summary.failed_tests = 2

\* the keys of the groups whose tests hold the result of the i-th case
GroupsOf(i) ==
    {k \in DOMAIN report.endpoint_results :
        \E n \in 1..Len(report.endpoint_results[k].tests) :
            report.endpoint_results[k].tests[n] = results[i]}

\* C14: the result of a case is grouped under "<METHOD> <path>" of the case
\* and under no other key, so that a nominal case and its variants share one
\* group, and two results share a group only if they agree on method and
\* path.
C14_GroupedByMethodAndPath ==
    pc = "reported" =>
        /\ \A i \in 1..Len(results) :
             GroupsOf(i) = {test_cases[i].method \o " " \o test_cases[i].path}
        /\ \A i \in NominalIdx : \A j \in VariantsOf(i) : GroupsOf(j) = GroupsOf(i)
        /\ \A i, j \in 1..Len(results) :
             (GroupsOf(i) = GroupsOf(j)) <=>
                 /\ test_cases[i].method = test_cases[j].method
                 /\ test_cases[i].path = test_cases[j].path
        /\ \A k \in DOMAIN report.endpoint_results :
             report.endpoint_results[k].total =
                 Cardinality({i \in 1..Len(results) : k \in GroupsOf(i)})

\* a report in which a nominal case and its one variant make a group of
\* total 2, beside the group of another method on the same path
C14_Witness ==
    /\ pc = "reported"
    /\ \E i \in NominalIdx :
         /\ Cardinality(VariantsOf(i)) = 1
         /\ \A k \in GroupsOf(i) : report.endpoint_results[k].total = 2
         /\ \E j \in 1..Len(results) :
              /\ test_cases[j].path = test_cases[i].path
              /\ test_cases[j].method # test_cases[i].method

\* the results of the given method and path, in the order of results
ResultsOf(method, path) ==
    LET OfEndpoint(r) == r.method = method /\ r.path = path
    IN  SelectSeq(results, OfEndpoint)

\* C15: the report's results are the input results unchanged, and the tests
\* of every group are the input results of the group's method and path in
\* their input order.
C15_ReportKeepsOrder ==
    pc = "reported" =>
        /\ report.results = results
        /\ \A i \in 1..Len(results) :
             \A k \in GroupsOf(i) :
                 report.endpoint_results[k].tests
                     = ResultsOf(results[i].method, results[i].path)

\* a report with a group of two different results beside another group
C15_Witness ==
    /\ pc = "reported"
    /\ Cardinality(DOMAIN report.endpoint_results) >= 2
    /\ \E k \in DOMAIN report.endpoint_results :
         LET tests == report.endpoint_results[k].tests
         IN  Len(tests) = 2 /\ tests[1] # tests[2]

\* C16: success_rate is 0 for an empty result list and 100 for a non-empty
\* list of passed results, and lies between 0 and 100 for every list (the
\* rate is held in hundredths of a percent: 10000 is 100).
C16_SuccessRateBounds ==
    pc = "reported" =>
        /\ results = <<>> => report.summary.success_rate = 0
        /\ (results # <<>> /\ PassedResults = 1..Len(results)) =>
               report.summary.success_rate = 100 * 100
        /\ report.summary.success_rate \in 0..(100 * 100)

\* a report of two or more results, all of them passed
C16_Witness ==
    /\ pc = "reported"
    /\ Len(results) >= 2
    /\ PassedResults = 1..Len(results)
    /\ report.summary.success_rate = 100 * 100

\* ------------------------------------------------------------------------
\* Claims about the order and the number of the derived cases
\* ------------------------------------------------------------------------
\* C17: the nominal cases come in the document order of the supported
\* operations, one per operation; the cases between a nominal case and the
\* next are its own variants, the missing-params variant before the
\* invalid-auth variant, and no case precedes the first nominal case.
C17_DocumentOrder ==
    /\ Cardinality(NominalIdx) = Len(SupportedEntries)
    /\ test_cases # <<>> => 1 \in NominalIdx
    /\ \A k \in 1..Len(SupportedEntries) :
         LET i == NominalAt(k)
             nominal == test_cases[i]
         IN  /\ nominal.path = SupportedEntries[k].path
             /\ Lower(nominal.method) = Lower(SupportedEntries[k].method)
             /\ \A j \in VariantsOf(i) :
                  /\ test_cases[j].path = nominal.path
                  /\ test_cases[j].method = nominal.method
                  /\ SubSeq(test_cases[j].name, 1, Len(nominal.name)) = nominal.name
                  /\ Len(test_cases[j].name) = Len(nominal.name) + 1
             /\ \A j1, j2 \in VariantsOf(i) :
                  j1 < j2 => /\ IsMissingParams(test_cases[j1])
                             /\ IsInvalidAuth(test_cases[j2])

\* two operations have been derived, the first with both of its variants
\* and the second with one
C17_Witness ==
    /\ pc = "derived"
    /\ Cardinality(NominalIdx) = 2
    /\ Cardinality(VariantsOf(NominalAt(1))) = 2
    /\ Cardinality(VariantsOf(NominalAt(2))) = 1
    /\ test_cases[NominalAt(1)].path # test_cases[NominalAt(2)].path

\* the positions of the entries whose key spells one of the five verbs, in
\* whatever case
VerbEntries ==
    {k \in 1..Len(entries) :
        entries[k].method \in {"get", "Get", "GET", "post", "Post", "POST",
                               "put", "Put", "PUT", "delete", "Delete", "DELETE",
                               "patch", "Patch", "PATCH"}}

\* C18: an entry whose key is none of get, post, put, delete, patch (in
\* whatever case) yields no case and every other entry yields exactly one
\* nominal case, so the number of cases is the number of supported
\* operations plus the number of variants.
C18_OneNominalPerSupportedEntry ==
    /\ Cardinality(NominalIdx) = Cardinality(VerbEntries)
    /\ \A i \in 1..Len(test_cases) :
         /\ test_cases[i].method \in {"GET", "POST", "PUT", "DELETE", "PATCH"}
         /\ \E k \in VerbEntries : entries[k].path = test_cases[i].path
    /\ Len(test_cases) >= Cardinality(VerbEntries)
    /\ Len(test_cases) =
           Cardinality(VerbEntries)
           + Cardinality({i \in 1..Len(test_cases) : ~IsNominal(test_cases[i])})

\* a document with a "parameters" entry and an operation keyed in capitals
\* has been derived, with variants
C18_Witness ==
    /\ pc = "derived"
    /\ \E k \in 1..Len(entries) : entries[k].method = "parameters"
    /\ \E k \in 1..Len(entries) : entries[k].method = "POST"
    /\ Len(test_cases) > Cardinality(VerbEntries)

\* ------------------------------------------------------------------------
\* Claims about the credentials of the outgoing request
\* ------------------------------------------------------------------------
\* the cases whose request has been prepared
Started == Running \cup Finished

\* the dictionary d is d0 with the key k set to v and nothing else changed
IsWith(d, d0, k, v) ==
    /\ DOMAIN d = DOMAIN d0 \cup {k}
    /\ d[k] = v
    /\ \A x \in DOMAIN d0 \ {k} : d[x] = d0[x]

\* the auth kind whose credential the request of a case is to carry, None
\* when the case requires no auth
AuthKindOf(tc) ==
    IF Get(tc, "auth_required", FALSE) THEN Get(tc, "auth_type", None) ELSE None

\* C19: with the credential supplied, the request of an apiKey case carries
\* the supplied value under the declared name in the headers (location
\* header) or in the params (location query) and in neither for any other
\* location; the request of a bearer case carries Authorization = "Bearer "
\* followed by the supplied value; the request of a case without auth
\* requirement has exactly the headers and params recorded on the case.
C19_CredentialsInjected ==
    \A i \in Started :
        LET tc == test_cases[i]
            request == RequestOf(i)
            headers == heap[tc.request.headers]
            params == heap[tc.request.params]
        IN  /\ (AuthKindOf(tc) = "apiKey" /\ "apiKey" \in DOMAIN auth_values) =>
                 /\ tc.auth_in = "header" =>
                      /\ IsWith(request.headers, headers, tc.auth_name, auth_values.apiKey)
                      /\ request.params = params
                 /\ tc.auth_in = "query" =>
                      /\ IsWith(request.params, params, tc.auth_name, auth_values.apiKey)
                      /\ request.headers = headers
                 /\ tc.auth_in \notin {"header", "query"} =>
                      /\ request.headers = headers
                      /\ request.params = params
            /\ (AuthKindOf(tc) = "bearer" /\ "bearer" \in DOMAIN auth_values) =>
                 /\ IsWith(request.headers, headers, "Authorization",
                           <<"Bearer ", auth_values.bearer>>)
                 /\ request.params = params
            /\ ~Get(tc, "auth_required", FALSE) =>
                 /\ request.headers = headers
                 /\ request.params = params

\* with credentials supplied, the requests of a bearer case and of a case
\* without auth requirement have been prepared
C19_Witness ==
    /\ "bearer" \in DOMAIN auth_values
    /\ auth_values.bearer # ""
    /\ \E i, j \in Started :
         /\ AuthKindOf(test_cases[i]) = "bearer"
         /\ ~Get(test_cases[j], "auth_required", FALSE)

\* C20: when the credential a case needs is absent from auth_values, the
\* request carries the empty string in its place: the declared apiKey name
\* with an empty value, or Authorization = "Bearer " followed by the empty
\* string.
C20_AbsentCredentialIsEmpty ==
    \A i \in Started :
        LET tc == test_cases[i]
            request == RequestOf(i)
        IN  /\ (AuthKindOf(tc) = "apiKey" /\ "apiKey" \notin DOMAIN auth_values) =>
                 /\ tc.auth_in = "header" => request.headers[tc.auth_name] = ""
                 /\ tc.auth_in = "query" => request.params[tc.auth_name] = ""
            /\ (AuthKindOf(tc) = "bearer" /\ "bearer" \notin DOMAIN auth_values) =>
                 request.headers["Authorization"] = <<"Bearer ", "">>

\* ------------------------------------------------------------------------
\* Claims about the workers of the pool
\* ------------------------------------------------------------------------
\* the finished cases whose result the loop has not taken yet
Uncollected == { i \in Finished : i > completed }

\* C21: a worker is free again as soon as its execute_test call has
\* returned: whenever a case is queued and fewer than max_workers calls are
\* running, the case can start, whatever results are still uncollected.
C21_SlotFreedOnReturn ==
    (Pending # {} /\ Cardinality(Running) < max_workers) => ENABLED StartCase

\* with two workers and the first case still running, the second case has
\* finished uncollected and the third case has taken its worker
C21_Witness ==
    /\ max_workers = 2
    /\ completed = 0
    /\ 1 \in Running
    /\ 2 \in Uncollected
    /\ 3 \in Running

\* a step of the run writes nothing that two workers share: the test cases
\* and the dictionaries they refer to stay as they are, a request once
\* prepared stays as it is, a request newly prepared is made of its case and
\* the credentials, and results grows only by the collecting loop taking
\* the next future's result
WorkersShareNothing ==
    /\ test_cases' = test_cases
    /\ heap' = heap
    /\ auth_values' = auth_values
    /\ \A i \in Started : RequestOf(i)' = RequestOf(i)
    /\ \A i \in Pending :
         futures'[i].state = "running" =>
             futures'[i].request = PrepareRequest(test_cases[i], auth_values, heap)
    /\ results' # results =>
         /\ pc = "collecting"
         /\ futures' = futures
         /\ results' = Append(results, futures[completed + 1].result)

\* C22: no step of run_tests writes state that workers share: execute_test
\* leaves its test case and the header, parameter and body objects the case
\* shares with its variants unchanged, injects the credentials into copies,
\* and only the collecting loop appends to results.
C22_WorkersShareNothing == [][WorkersShareNothing]_vars

\* a nominal case and a variant that share one headers dictionary have both
\* been started with a credential put into their requests' headers, and a
\* result has been collected
C22_Witness ==
    /\ results # <<>>
    /\ \E i, j \in Started :
         /\ i < j
         /\ test_cases[i].request.headers = test_cases[j].request.headers
         /\ RequestOf(i).headers # heap[test_cases[i].request.headers]
         /\ RequestOf(j).headers # heap[test_cases[j].request.headers]

\* ------------------------------------------------------------------------
\* Claims about the variants' requests and the security of an operation
\* ------------------------------------------------------------------------
\* the names of the query parameters an operation declares
QueryNames(operation) ==
    LET parameters == Get(operation, "parameters", <<>>)
    IN  { parameters[n].name :
            n \in { m \in 1..Len(parameters) : parameters[m]["in"] = "query" } }

\* the params dictionary of a case holds the names, each with the value None
HasUnsetParams(tc, names) ==
    /\ DOMAIN heap[tc.request.params] = names
    /\ \A x \in names : heap[tc.request.params][x] = None

\* C23: the missing-params variant has an empty params dictionary, while
\* the nominal case and the invalid-auth variant of the operation keep one
\* unset key per declared query parameter; the variant's url, method,
\* headers and body are the nominal case's.
C23_OnlyVariantParamsCleared ==
    Cardinality(NominalIdx) = Len(SupportedEntries) =>
        \A k \in 1..Len(SupportedEntries) :
            LET i == NominalAt(k)
                nominal == test_cases[i]
                names == QueryNames(SupportedEntries[k].operation)
            IN  /\ HasUnsetParams(nominal, names)
                /\ \A j \in VariantsOf(i) :
                     LET variant == test_cases[j]
                     IN  /\ IsInvalidAuth(variant) => HasUnsetParams(variant, names)
                         /\ IsMissingParams(variant) =>
                              /\ heap[variant.request.params] = EmptyDict
                              /\ variant.request.url = nominal.request.url
                              /\ variant.method = nominal.method
                              /\ heap[variant.request.headers]
                                     = heap[nominal.request.headers]
                              /\ variant.request.body = nominal.request.body

\* an operation with a declared query parameter has been derived with both
\* of its variants
C23_Witness ==
    /\ pc = "derived"
    /\ \E i \in NominalIdx :
         /\ heap[test_cases[i].request.params] # EmptyDict
         /\ \E j1, j2 \in VariantsOf(i) :
              /\ IsMissingParams(test_cases[j1])
              /\ IsInvalidAuth(test_cases[j2])

\* the auth kind the derivation records for a declared scheme, None for a
\* scheme it does not annotate
SchemeKind(n) ==
    IF ~IsAnnotatedScheme(n) THEN None
    ELSE IF spec.components.securitySchemes[n].type = "apiKey" THEN "apiKey"
    ELSE "bearer"

\* the nominal case carries the auth requirement of the security list: none
\* for an empty list or an empty first requirement, else the requirement of
\* the first scheme named, with the kind of the scheme when it is annotated
CarriesSecurity(tc, security) ==
    IF security = <<>> \/ security[1] = <<>>
    THEN "auth_required" \notin DOMAIN tc
    ELSE /\ Get(tc, "auth_required", FALSE)
         /\ Get(tc, "auth_type", None) = SchemeKind(security[1][1])

\* C24: the security of an operation is its own security entry when it
\* declares one (an empty list meaning no auth requirement, whatever the
\* document's default), the document's top-level entry only when it
\* declares none, and no auth requirement when neither exists.
C24_OperationSecurityFirst ==
    Cardinality(NominalIdx) = Len(SupportedEntries) =>
        \A k \in 1..Len(SupportedEntries) :
            LET operation == SupportedEntries[k].operation
                nominal == test_cases[NominalAt(k)]
            IN  IF "security" \in DOMAIN operation
                THEN CarriesSecurity(nominal, operation.security)
                ELSE IF "security" \in DOMAIN spec
                THEN CarriesSecurity(nominal, spec.security)
                ELSE "auth_required" \notin DOMAIN nominal

\* under a document with a default security: an operation with an empty
\* security list and no auth requirement, and an operation of another
\* scheme than the default's with that scheme's kind
C24_Witness ==
    /\ pc = "derived"
    /\ "security" \in DOMAIN spec
    /\ "components" \in DOMAIN spec
    /\ Len(SupportedEntries) = 2
    /\ Cardinality(NominalIdx) = 2
    /\ "security" \in DOMAIN SupportedEntries[1].operation
    /\ SupportedEntries[1].operation.security = <<>>
    /\ "auth_required" \notin DOMAIN test_cases[NominalAt(1)]
    /\ "security" \in DOMAIN SupportedEntries[2].operation
    /\ SupportedEntries[2].operation.security = << <<"BearerAuth">> >>
    /\ Get(test_cases[NominalAt(2)], "auth_type", None) = "bearer"

\* ------------------------------------------------------------------------
\* Claims about the termination of run_tests
\* ------------------------------------------------------------------------
\* C25: when every dispatched call returns or raises and the threads are
\* scheduled fairly, run_tests returns, with every case executed and its
\* result collected, for no case, for fewer cases than workers and for more;
\* and it never returns while a case is queued or its call has not come
\* back, so a call that never returns keeps run_tests from returning.
C25_RunTerminates ==
    /\ <>(/\ pc = "returned"
          /\ Finished = 1..Len(test_cases)
          /\ completed = Len(test_cases)
          /\ Len(results) = Len(test_cases))
    /\ [](pc = "returned" => Pending = {} /\ Running = {})

\* run_tests has returned from a run of more cases than workers
C25_Witness ==
    /\ pc = "returned"
    /\ Len(test_cases) > max_workers
    /\ Len(results) = Len(test_cases)

====
